---- MODULE Spec2Model ----
(***************************************************************************)
(* The Dapp root component of frontend/src/components/Dapp.tsx as a state  *)
(* machine: the React state bag, the contract handles, the polling timer,  *)
(* the injected wallet provider (window.ethereum) and every asynchronous   *)
(* call that is in flight (enable, name/symbol, balanceOf, transfer, wait).*)
(*                                                                         *)
(* Conventions.                                                            *)
(*  - An optional JavaScript value is a sequence of length 0 or 1:         *)
(*    undefined is << >>, the value v is <<v>>.                            *)
(*  - One action is one run of JavaScript to completion: a handler up to   *)
(*    its first await, or the continuation of an await up to the next one. *)
(*  - setState is applied synchronously (React 16/17 outside a batched     *)
(*    React event handler, which is where every read of this.state that    *)
(*    follows a setState happens) and is a no-op once the component is     *)
(*    unmounted.                                                           *)
(***************************************************************************)
EXTENDS Integers, FiniteSets, Sequences, Bags, TLC

\* ---------------------------------------------------------------- bounds
\* enable() calls that may be pending at once
MaxEnable == 1
\* accountsChanged/networkChanged listener pairs that get registered
MaxListeners == 2
\* balanceOf calls in flight at once
MaxReads == 2
\* _getTokenData calls in flight at once
MaxTokenReads == 2
\* transfer attempts in one behaviour
MaxTx == 2

\* ------------------------------------------------------------- constants
HARDHAT_NETWORK_ID == "31337"
ERROR_CODE_TX_REJECTED_BY_USER == 4001

Undefined == << >>
Some(v) == <<v>>
IsSet(x) == x # Undefined

\* the accounts of the wallet, and the chains it can be on
Addresses == {"0xA", "0xB"}
Networks == {HARDHAT_NETWORK_ID, "1"}
\* the token contract: its constants and the amounts a transfer may move
TokenName == "Test"
TokenSymbol == "TST"
Decimals == {"9", "18"}
Recipients == {"0xB"}
Amounts == {"1"}
AmountValue(a) == IF a = "1" THEN 1 ELSE IF a = "2" THEN 2 ELSE 0
InitialLedger == [a \in Addresses |-> 1]
TxHash(i) == <<"0x1", "0x2", "0x3", "0x4">>[i]

\* the errors an await can reject with
RejectedByUser == [code |-> Some(ERROR_CODE_TX_REJECTED_BY_USER), message |-> "User denied transaction signature"]
ProviderError == [code |-> Some(-32603), message |-> "Internal JSON-RPC error"]
TransactionFailed == [code |-> Undefined, message |-> "Transaction failed"]
TokenNotInitialized == [code |-> Undefined, message |-> "Token contract not initialized"]

VARIABLES
    state,              \* this.state (DappState)
    _provider,          \* this._provider
    _token,             \* this._token
    _orchestrator,      \* this._orchestrator
    _farmController,    \* this._farmController
    _pollDataInterval,  \* this._pollDataInterval
    timers,             \* the window's live interval timers (ids)
    ethereum,           \* window.ethereum: present, networkVersion, listeners
    enablePending,      \* _connectWallet calls suspended at enable()
    tokenReads,         \* _getTokenData calls suspended at name() / symbol()
    reads,              \* balanceOf calls in flight
    transfers,          \* _transferTokens attempts, by number
    ledger,             \* the token contract's balances
    tokenDecimals,      \* what the token contract's decimals() reports
    transferData,       \* the Transfer form's state: amount and to
    mounted,            \* the component is mounted
    unmountedWhilePolling, \* it was unmounted, and the polling timer was set then
    last                \* the handler or continuation that ran last

vars == <<state, _provider, _token, _orchestrator, _farmController,
          _pollDataInterval, timers, ethereum, enablePending,
          tokenReads, reads, transfers, ledger, tokenDecimals, transferData,
          mounted,
          unmountedWhilePolling, last>>

\* --------------------------------------------------------- the component
initialState ==
    [tokenData |-> Undefined, selectedAddress |-> Undefined,
     balance |-> Undefined, txBeingSent |-> Undefined,
     transactionError |-> Undefined, networkError |-> Undefined,
     isDarkTheme |-> Undefined, isProcessing |-> Undefined]

\* The mutable parts a handler works on, as one value, so that handlers
\* compose: a listener that is registered twice runs twice.
Machine ==
    [state |-> state, provider |-> _provider, token |-> _token,
     orchestrator |-> _orchestrator, farmController |-> _farmController,
     poll |-> _pollDataInterval, timers |-> timers, tokenReads |-> tokenReads,
     reads |-> reads, overflow |-> FALSE]

Becomes(m) ==
    /\ ~m.overflow
    /\ state' = m.state
    /\ _provider' = m.provider
    /\ _token' = m.token
    /\ _orchestrator' = m.orchestrator
    /\ _farmController' = m.farmController
    /\ _pollDataInterval' = m.poll
    /\ timers' = m.timers
    /\ tokenReads' = m.tokenReads
    /\ reads' = m.reads

\* this.setState(upd): the named keys are replaced, the others kept
setState(m, upd) ==
    IF mounted
    THEN [m EXCEPT !.state = [k \in DOMAIN @ |->
                                IF k \in DOMAIN upd THEN upd[k] ELSE @[k]]]
    ELSE m

\* window.setInterval hands out an id no live timer has; _initialize leaves
\* a timer alive at most once per listener pair it is followed by
TimerIds == 1..MaxListeners
NewTimer(live) == CHOOSE i \in TimerIds \ live : \A j \in TimerIds \ live : i <= j

\* (mutant) render() does not look for the wallet
View_NoWalletCheck ==
    IF ~IsSet(state.selectedAddress) THEN "ConnectWallet"
    ELSE IF ~IsSet(state.tokenData) \/ ~IsSet(state.balance) THEN "Loading"
    ELSE "Application"

\* render(): which view the component shows
View ==
    IF ~ethereum.present THEN "NoWalletDetected"
    ELSE IF ~IsSet(state.selectedAddress) THEN "ConnectWallet"
    ELSE IF ~IsSet(state.tokenData) \/ ~IsSet(state.balance) THEN "Loading"
    ELSE "Application"

\* the balanceOf calls in flight that no transfer attempt awaits
Polled(rs) == BagCardinality(rs) - Cardinality({r \in BagToSet(rs) : r.awaitedBy # 0})

Without(rs, r) == rs (-) SetToBag({r})

\* (mutant) the handle is dropped, clearInterval is forgotten
StopPolling_KeepsTimer(m) == [m EXCEPT !.poll = Undefined]

_stopPollingData(m) ==
    [m EXCEPT !.timers = @ \ {t \in @ : Some(t) = m.poll}, !.poll = Undefined]

\* _updateBalance up to its await: the balanceOf call is issued for the
\* address in this.state; awaitedBy is the transfer attempt that awaits the
\* call, 0 for the polling timer and for _startPollingData
_updateBalance(m, awaitedBy) ==
    IF IsSet(m.token)
    THEN IF awaitedBy = 0 /\ Polled(m.reads) >= MaxReads
         THEN [m EXCEPT !.overflow = TRUE]
         ELSE [m EXCEPT !.reads = @ (+) SetToBag(
                  {[address |-> m.state.selectedAddress, awaitedBy |-> awaitedBy]})]
    ELSE setState(m, [balance |-> Undefined])

_startPollingData(m) ==
    IF TimerIds \ m.timers = {}
    THEN [m EXCEPT !.overflow = TRUE]
    ELSE LET id == NewTimer(m.timers)
         IN  _updateBalance([m EXCEPT !.timers = @ \cup {id}, !.poll = Some(id)], 0)

\* _getTokenData up to its first await
_getTokenData(m) ==
    IF IsSet(m.token)
    THEN IF m.tokenReads.name + m.tokenReads.symbol >= MaxTokenReads
         THEN [m EXCEPT !.overflow = TRUE]
         ELSE [m EXCEPT !.tokenReads.name = @ + 1]
    ELSE setState(m, [tokenData |->
              Some([name |-> Undefined, symbol |-> Undefined, decimals |-> Undefined])])

\* _initializeEthers: an async function with no await, so it runs in full
\* when called (contract-address.json holds the three addresses)
_initializeEthers(m) ==
    [m EXCEPT !.provider = Some("Web3Provider"), !.token = Some("UFragments"),
              !.orchestrator = Some("Orchestrator"),
              !.farmController = Some("FarmController")]

_initialize(m, userAddress) ==
    _startPollingData(_getTokenData(_initializeEthers(
        setState(m, [selectedAddress |-> Some(userAddress)]))))

_resetState(m) == setState(m, initialState)

\* (mutant) the chain is never looked at
CheckNetwork_AlwaysTrue == TRUE

_checkNetwork == ethereum.networkVersion = HARDHAT_NETWORK_ID

\* (mutant) the listener re-initializes without stopping the timer first
OnAccountsChanged_NoStop(m, newAddress) ==
    IF newAddress = Undefined THEN _resetState(m)
    ELSE _initialize(m, newAddress[1])

\* the listeners _connectWallet registers
OnAccountsChanged(m, newAddress) ==
    LET s == _stopPollingData(m)
    IN  IF newAddress = Undefined THEN _resetState(s)
        ELSE _initialize(s, newAddress[1])

OnNetworkChanged(m) == _resetState(_stopPollingData(m))

\* window.ethereum emits to every registered listener, in turn
RECURSIVE EmitAccountsChanged(_, _, _)
EmitAccountsChanged(m, newAddress, n) ==
    IF n = 0 \/ m.overflow THEN m
    ELSE EmitAccountsChanged(OnAccountsChanged(m, newAddress), newAddress, n - 1)

RECURSIVE EmitNetworkChanged(_, _)
EmitNetworkChanged(m, n) ==
    IF n = 0 THEN m ELSE EmitNetworkChanged(OnNetworkChanged(m), n - 1)

\* ------------------------------------------------------------ the start
Constructed ==
    /\ state = initialState
    /\ _provider = Undefined
    /\ _token = Undefined
    /\ _orchestrator = Undefined
    /\ _farmController = Undefined
    /\ _pollDataInterval = Undefined
    /\ timers = {}
    /\ ethereum \in {[present |-> TRUE, networkVersion |-> n, listeners |-> 0] : n \in Networks}
                    \cup {[present |-> FALSE, networkVersion |-> "1", listeners |-> 0]}
    /\ enablePending = 0
    /\ tokenReads = [name |-> 0, symbol |-> 0]
    /\ reads = EmptyBag
    /\ transfers = << >>
    /\ ledger = InitialLedger
    /\ mounted = TRUE
    /\ unmountedWhilePolling = FALSE
    /\ last = [op |-> "constructor", tx |-> 0, arg |-> Undefined]
    /\ transferData = [amount |-> Some(""), to |-> Some("")]

\* the deployed token reports the decimals the front end shows
Init == Constructed /\ tokenDecimals = "9"

\* any token is deployed at the address of contract-address.json
InitAnyToken == Constructed /\ tokenDecimals \in Decimals

\* what ran last: the handler or continuation, the transfer attempt it
\* belongs to (0: none) and the address it was given (if any)
Ran(op, tx, arg) == last' = [op |-> op, tx |-> tx, arg |-> arg]

\* ------------------------------------------------------ wallet connection
\* the Connect button of the ConnectWallet view: _connectWallet up to
\* await window.ethereum.enable()
ConnectWallet ==
    /\ mounted /\ View = "ConnectWallet"
    /\ enablePending < MaxEnable
    /\ enablePending' = enablePending + 1
    /\ Ran("_connectWallet", 0, Undefined)
    /\ UNCHANGED <<state, _provider, _token, _orchestrator, _farmController,
                   _pollDataInterval, timers, ethereum,
                   tokenReads, reads, transfers, ledger, mounted, unmountedWhilePolling,
                   tokenDecimals, transferData>>

\* the failing branch of _checkNetwork
WrongNetwork(m) ==
    setState(m, [networkError |-> Some("Please connect Metamask to Localhost:8545")])

\* enable() resolves with the wallet's address: _checkNetwork, and on the
\* expected chain _initialize and the registration of the two listeners
ConnectResolved(selectedAddress, maxListeners) ==
    /\ enablePending > 0
    /\ enablePending' = enablePending - 1
    /\ IF ~_checkNetwork
       THEN /\ Becomes(WrongNetwork(Machine))
            /\ UNCHANGED ethereum
       ELSE /\ ethereum.listeners < maxListeners
            /\ Becomes(_initialize(Machine, selectedAddress))
            /\ ethereum' = [ethereum EXCEPT !.listeners = @ + 1]
    /\ Ran("connect:resolved", 0, Some(selectedAddress))
    /\ UNCHANGED <<transfers, ledger, mounted, unmountedWhilePolling,
                   tokenDecimals, transferData>>

\* enable() rejects (the user closes the wallet's prompt): nothing catches it
ConnectRejected ==
    /\ enablePending > 0
    /\ enablePending' = enablePending - 1
    /\ Ran("connect:rejected", 0, Undefined)
    /\ UNCHANGED <<state, _provider, _token, _orchestrator, _farmController,
                   _pollDataInterval, timers, ethereum,
                   tokenReads, reads, transfers, ledger, mounted, unmountedWhilePolling,
                   tokenDecimals, transferData>>

\* the wallet switches or removes the account and notifies the listeners
AccountsChanged(newAddress) ==
    /\ ethereum.present /\ ethereum.listeners > 0
    /\ Becomes(EmitAccountsChanged(Machine, newAddress, ethereum.listeners))
    /\ Ran("accountsChanged", 0, newAddress)
    /\ UNCHANGED <<ethereum, enablePending, transfers, ledger, mounted, unmountedWhilePolling,
                   tokenDecimals, transferData>>

\* the wallet moves to another chain and notifies the listeners, if any
NetworkChanged(networkId) ==
    /\ ethereum.present /\ networkId # ethereum.networkVersion
    /\ ethereum' = [ethereum EXCEPT !.networkVersion = networkId]
    /\ Becomes(EmitNetworkChanged(Machine, ethereum.listeners))
    /\ Ran(IF ethereum.listeners > 0 THEN "networkChanged" ELSE "walletSwitchedNetwork",
           0, Undefined)
    /\ UNCHANGED <<enablePending, transfers, ledger, mounted, unmountedWhilePolling,
                   tokenDecimals, transferData>>

\* ----------------------------------------------------------------- reads
\* a live interval timer fires: () => this._updateBalance()
PollTick(id) ==
    /\ id \in timers
    /\ Becomes(_updateBalance(Machine, 0))
    /\ Ran("poll", 0, Undefined)
    /\ UNCHANGED <<ethereum, enablePending, transfers, ledger, mounted, unmountedWhilePolling,
                   tokenDecimals, transferData>>

BalanceOf(address) == [amount |-> ledger[address], of |-> address]

\* balanceOf resolves for a call nobody awaits: this.setState({ balance })
BalanceResolved(r) ==
    /\ BagIn(r, reads) /\ r.awaitedBy = 0 /\ IsSet(r.address)
    /\ Becomes(setState([Machine EXCEPT !.reads = Without(@, r)],
                        [balance |-> Some(BalanceOf(r.address[1]))]))
    /\ Ran("balance:resolved", 0, Undefined)
    /\ UNCHANGED <<ethereum, enablePending, transfers, ledger, mounted, unmountedWhilePolling,
                   tokenDecimals, transferData>>

\* balanceOf rejects (always, for an undefined address): nothing catches it
BalanceRejected(r) ==
    /\ BagIn(r, reads) /\ r.awaitedBy = 0
    /\ Becomes([Machine EXCEPT !.reads = Without(@, r)])
    /\ Ran("balance:rejected", 0, Undefined)
    /\ UNCHANGED <<ethereum, enablePending, transfers, ledger, mounted, unmountedWhilePolling,
                   tokenDecimals, transferData>>

\* _getTokenData: name() resolves, symbol() is called
TokenNameResolved ==
    /\ tokenReads.name > 0
    /\ tokenReads' = [name |-> tokenReads.name - 1, symbol |-> tokenReads.symbol + 1]
    /\ Ran("tokenData:name", 0, Undefined)
    /\ UNCHANGED <<state, _provider, _token, _orchestrator, _farmController,
                   _pollDataInterval, timers, ethereum, enablePending,
                   reads, transfers, ledger, mounted, unmountedWhilePolling,
                   tokenDecimals, transferData>>

\* _getTokenData: symbol() resolves, the token data is stored
TokenSymbolResolved ==
    /\ tokenReads.symbol > 0
    /\ Becomes(setState([Machine EXCEPT !.tokenReads.symbol = @ - 1],
          [tokenData |-> Some([name |-> Some(TokenName), symbol |-> Some(TokenSymbol),
                               decimals |-> Some("9")])]))
    /\ Ran("tokenData:loaded", 0, Undefined)
    /\ UNCHANGED <<ethereum, enablePending, transfers, ledger, mounted, unmountedWhilePolling,
                   tokenDecimals, transferData>>

\* name() or symbol() rejects: nothing catches it
TokenDataRejected ==
    /\ \E k \in {"name", "symbol"} :
          /\ tokenReads[k] > 0
          /\ tokenReads' = [tokenReads EXCEPT ![k] = @ - 1]
    /\ Ran("tokenData:rejected", 0, Undefined)
    /\ UNCHANGED <<state, _provider, _token, _orchestrator, _farmController,
                   _pollDataInterval, timers, ethereum, enablePending,
                   reads, transfers, ledger, mounted, unmountedWhilePolling,
                   tokenDecimals, transferData>>

\* -------------------------------------------------------------- transfers
\* (mutant) the dismissal clears the pending transaction as well
Dismiss_ClearsPending(m) ==
    setState(m, [transactionError |-> Undefined, txBeingSent |-> Undefined])

_dismissTransactionError(m) == setState(m, [transactionError |-> Undefined])

_dismissNetworkError(m) == setState(m, [networkError |-> Undefined])

\* (mutant) every error is dropped
Catch_DropsAll(m, error) == m

\* catch (error): the user's rejection is dropped, any other error is stored
Catch(m, error) ==
    IF error.code = Some(ERROR_CODE_TX_REJECTED_BY_USER) THEN m
    ELSE setState(m, [transactionError |-> Some(error)])

\* (mutant) no cleanup
Finally_Skipped(m) == m

\* (mutant) the cleanup drops the stored error as well
Finally_ClearsError(m) ==
    setState(m, [txBeingSent |-> Undefined, transactionError |-> Undefined])

\* finally: the pending transaction is cleared
Finally(m) == setState(m, [txBeingSent |-> Undefined])

Attempt(i, pc) == [transfers EXCEPT ![i].pc = pc]

\* _transferTokens(to, amount) up to await this._token.transfer(to, amount)
\* (or to its end, when there is no token contract)
_transferTokens(to, amount) ==
    LET m == _dismissTransactionError(Machine)
        tx == Len(transfers) + 1
    IN  IF ~IsSet(_token)
        THEN /\ Becomes(Finally(Catch(m, TokenNotInitialized)))
             /\ transfers' = Append(transfers, [pc |-> "done", to |-> to,
                                amount |-> amount, from |-> state.selectedAddress])
             /\ Ran("transfer:notInitialized", tx, Undefined)
        ELSE /\ Becomes(m)
             /\ transfers' = Append(transfers, [pc |-> "transfer", to |-> to,
                                amount |-> amount, from |-> state.selectedAddress])
             /\ Ran("_transferTokens", tx, Undefined)

\* ------------------------------------------------------ the Transfer form
\* what the user can type into the amount and the recipient field
TypedAmounts == {"", "0", "00", "1"}
TypedRecipients == {"", "0xB"}

\* BigNumber.toString() of an amount of the ledger
BalanceToString(n) == <<"0", "1", "2">>[n + 1]

\* amount.toString(): the form holds the amount as a string, which is its
\* own string
AmountToString(amount) == amount

\* onMaxClick: amount = balance?.toString()
onMaxClick(d, balance) ==
    [d EXCEPT !.amount = IF IsSet(balance)
                         THEN Some(BalanceToString(balance[1].amount))
                         ELSE Undefined]

\* handleInputChange: { ...transferData, [name]: value }
handleInputChange(d, name, value) == [d EXCEPT ![name] = Some(value)]

\* !x of an optional string
Falsy(x) == x = Undefined \/ x = Some("")

\* (mutant) the amount "0" is let through
AmountIsInvalid_ZeroAccepted(d) == Falsy(d.amount)

\* !amount || amount === "0"
AmountIsInvalid(d) == Falsy(d.amount) \/ d.amount = Some("0")

\* onSubmit's branches: two alerts, or the call of transferTokens
onSubmit(d) ==
    IF AmountIsInvalid(d) THEN "alert:amount"
    ELSE IF Falsy(d.to) THEN "alert:address"
    ELSE "transferTokens"

\* the user types into a field of the form
HandleInputChange(name, value) ==
    /\ mounted /\ View = "Application"
    /\ transferData' = handleInputChange(transferData, name, value)
    /\ transferData' # transferData
    /\ Ran("handleInputChange", 0, Undefined)
    /\ UNCHANGED <<state, _provider, _token, _orchestrator, _farmController,
                   _pollDataInterval, timers, ethereum, enablePending, tokenReads,
                   reads, transfers, ledger, tokenDecimals, mounted,
                   unmountedWhilePolling>>

\* the MAX button
OnMaxClick ==
    /\ mounted /\ View = "Application"
    /\ transferData' = onMaxClick(transferData, state.balance)
    /\ Ran("onMaxClick", 0, Undefined)
    /\ UNCHANGED <<state, _provider, _token, _orchestrator, _farmController,
                   _pollDataInterval, timers, ethereum, enablePending, tokenReads,
                   reads, transfers, ledger, tokenDecimals, mounted,
                   unmountedWhilePolling>>

\* the form is submitted as it stands: an alert, or _transferTokens
OnSubmit(maxTx) ==
    /\ mounted /\ View = "Application"
    /\ IF onSubmit(transferData) = "transferTokens"
       THEN /\ Len(transfers) < maxTx
            /\ _transferTokens(transferData.to[1],
                               AmountToString(transferData.amount[1]))
       ELSE /\ Ran(onSubmit(transferData), 0, Undefined)
            /\ UNCHANGED <<state, _provider, _token, _orchestrator, _farmController,
                           _pollDataInterval, timers, tokenReads, reads, transfers>>
    /\ UNCHANGED <<ethereum, enablePending, ledger, mounted, unmountedWhilePolling,
                   tokenDecimals, transferData>>

\* (mutant) the form is refused while an attempt is outstanding
SubmitTransfer_SingleFlight(to, amount, maxTx) ==
    LET d == handleInputChange(handleInputChange(transferData, "to", to),
                               "amount", amount)
    IN  /\ mounted /\ View = "Application"
        /\ Len(transfers) < maxTx
        /\ \A i \in DOMAIN transfers : transfers[i].pc = "done"
        /\ onSubmit(d) = "transferTokens"
        /\ transferData' = d
        /\ _transferTokens(d.to[1], AmountToString(d.amount[1]))
        /\ UNCHANGED <<ethereum, enablePending, ledger, mounted,
                       unmountedWhilePolling, tokenDecimals>>

\* the user fills the Transfer form of the application view with a recipient
\* and an amount and submits it
SubmitTransfer(to, amount, maxTx) ==
    LET d == handleInputChange(handleInputChange(transferData, "to", to),
                               "amount", amount)
    IN  /\ mounted /\ View = "Application"
        /\ Len(transfers) < maxTx
        /\ onSubmit(d) = "transferTokens"
        /\ transferData' = d
        /\ _transferTokens(d.to[1], AmountToString(d.amount[1]))
        /\ UNCHANGED <<ethereum, enablePending, ledger, mounted,
                       unmountedWhilePolling, tokenDecimals>>

\* transfer() resolves with the transaction: its hash is stored, tx.wait()
TransferSent(i) ==
    /\ i \in DOMAIN transfers /\ transfers[i].pc = "transfer"
    /\ Becomes(setState(Machine, [txBeingSent |-> Some(TxHash(i))]))
    /\ transfers' = Attempt(i, "wait")
    /\ Ran("transfer:sent", i, Undefined)
    /\ UNCHANGED <<ethereum, enablePending, ledger, mounted, unmountedWhilePolling,
                   tokenDecimals, transferData>>

\* transfer() rejects: the user declines to sign, or the provider fails
TransferRejected(i, error) ==
    /\ i \in DOMAIN transfers /\ transfers[i].pc = "transfer"
    /\ Becomes(Finally(Catch(Machine, error)))
    /\ transfers' = Attempt(i, "done")
    /\ Ran(IF error = RejectedByUser THEN "transfer:rejectedByUser"
           ELSE "transfer:error", i, Undefined)
    /\ UNCHANGED <<ethereum, enablePending, ledger, mounted, unmountedWhilePolling,
                   tokenDecimals, transferData>>

\* tx.wait() resolves with a receipt of status 0: throw, catch, finally
WaitFailed(i) ==
    /\ i \in DOMAIN transfers /\ transfers[i].pc = "wait"
    /\ Becomes(Finally(Catch(Machine, TransactionFailed)))
    /\ transfers' = Attempt(i, "done")
    /\ Ran("transfer:status0", i, Undefined)
    /\ UNCHANGED <<ethereum, enablePending, ledger, mounted, unmountedWhilePolling,
                   tokenDecimals, transferData>>

\* the token contract moves the amount when the transfer is included
Moved(l, from, to, amount) ==
    [a \in DOMAIN l |-> l[a] - (IF a = from THEN amount ELSE 0)
                             + (IF a = to THEN amount ELSE 0)]

\* (mutant) the attempt ends at the receipt, the balance is not refreshed
WaitIncluded_NoRefresh(i) ==
    /\ i \in DOMAIN transfers /\ transfers[i].pc = "wait"
    /\ IsSet(transfers[i].from)
    /\ ledger[transfers[i].from[1]] >= AmountValue(transfers[i].amount)
    /\ ledger' = Moved(ledger, transfers[i].from[1], transfers[i].to,
                       AmountValue(transfers[i].amount))
    /\ Becomes(Finally(Machine))
    /\ transfers' = Attempt(i, "done")
    /\ Ran("transfer:ok", i, Undefined)
    /\ UNCHANGED <<ethereum, enablePending, mounted, unmountedWhilePolling,
                   tokenDecimals, transferData>>

\* tx.wait() resolves with a receipt of status 1: await this._updateBalance()
WaitIncluded(i) ==
    /\ i \in DOMAIN transfers /\ transfers[i].pc = "wait"
    /\ IsSet(transfers[i].from)
    /\ ledger[transfers[i].from[1]] >= AmountValue(transfers[i].amount)
    /\ ledger' = Moved(ledger, transfers[i].from[1], transfers[i].to,
                       AmountValue(transfers[i].amount))
    /\ IF IsSet(_token)
       THEN /\ Becomes(_updateBalance(Machine, i))
            /\ transfers' = Attempt(i, "balance")
            /\ Ran("transfer:included", i, Undefined)
       ELSE /\ Becomes(Finally(_updateBalance(Machine, i)))
            /\ transfers' = Attempt(i, "done")
            /\ Ran("transfer:ok", i, Undefined)
    /\ UNCHANGED <<ethereum, enablePending, mounted, unmountedWhilePolling,
                   tokenDecimals, transferData>>

\* tx.wait() rejects
WaitRejected(i) ==
    /\ i \in DOMAIN transfers /\ transfers[i].pc = "wait"
    /\ Becomes(Finally(Catch(Machine, ProviderError)))
    /\ transfers' = Attempt(i, "done")
    /\ Ran("transfer:error", i, Undefined)
    /\ UNCHANGED <<ethereum, enablePending, ledger, mounted, unmountedWhilePolling,
                   tokenDecimals, transferData>>

\* the balanceOf call of the awaited _updateBalance resolves: setState, finally
RefreshResolved(r) ==
    /\ BagIn(r, reads) /\ r.awaitedBy # 0 /\ IsSet(r.address)
    /\ Becomes(Finally(setState([Machine EXCEPT !.reads = Without(@, r)],
                                [balance |-> Some(BalanceOf(r.address[1]))])))
    /\ transfers' = Attempt(r.awaitedBy, "done")
    /\ Ran("transfer:ok", r.awaitedBy, Undefined)
    /\ UNCHANGED <<ethereum, enablePending, ledger, mounted, unmountedWhilePolling,
                   tokenDecimals, transferData>>

\* the balanceOf call of the awaited _updateBalance rejects: catch, finally
RefreshRejected(r) ==
    /\ BagIn(r, reads) /\ r.awaitedBy # 0
    /\ Becomes(Finally(Catch([Machine EXCEPT !.reads = Without(@, r)], ProviderError)))
    /\ transfers' = Attempt(r.awaitedBy, "done")
    /\ Ran("transfer:error", r.awaitedBy, Undefined)
    /\ UNCHANGED <<ethereum, enablePending, ledger, mounted, unmountedWhilePolling,
                   tokenDecimals, transferData>>

\* ------------------------------------------------------- the view's buttons
\* the dismiss button of TransactionErrorMessage
DismissTransactionError ==
    /\ mounted /\ View = "Application" /\ IsSet(state.transactionError)
    /\ Becomes(_dismissTransactionError(Machine))
    /\ Ran("_dismissTransactionError", 0, Undefined)
    /\ UNCHANGED <<ethereum, enablePending, transfers, ledger, mounted, unmountedWhilePolling,
                   tokenDecimals, transferData>>

\* the dismiss callback handed to ConnectWallet
DismissNetworkError ==
    /\ mounted /\ View = "ConnectWallet" /\ IsSet(state.networkError)
    /\ Becomes(_dismissNetworkError(Machine))
    /\ Ran("_dismissNetworkError", 0, Undefined)
    /\ UNCHANGED <<ethereum, enablePending, transfers, ledger, mounted, unmountedWhilePolling,
                   tokenDecimals, transferData>>

_toggleTheme(m, isDark) == setState(m, [isDarkTheme |-> Some(isDark)])

_setIsProcessing(m, isProcessing) == setState(m, [isProcessing |-> Some(isProcessing)])

ToggleTheme(isDark) ==
    /\ mounted /\ View = "Application"
    /\ Becomes(_toggleTheme(Machine, isDark))
    /\ Ran("_toggleTheme", 0, Undefined)
    /\ UNCHANGED <<ethereum, enablePending, transfers, ledger, mounted, unmountedWhilePolling,
                   tokenDecimals, transferData>>

SetIsProcessing(isProcessing) ==
    /\ mounted /\ View = "Application"
    /\ Becomes(_setIsProcessing(Machine, isProcessing))
    /\ Ran("_setIsProcessing", 0, Undefined)
    /\ UNCHANGED <<ethereum, enablePending, transfers, ledger, mounted, unmountedWhilePolling,
                   tokenDecimals, transferData>>

\* componentWillUnmount
Unmount ==
    /\ mounted
    /\ mounted' = FALSE
    /\ unmountedWhilePolling' = IsSet(_pollDataInterval)
    /\ Becomes(_stopPollingData(Machine))
    /\ Ran("componentWillUnmount", 0, Undefined)
    /\ UNCHANGED <<ethereum, enablePending, transfers, ledger, tokenDecimals,
                   transferData>>

\* ------------------------------------------------------ the specification
\* The session: the wallet connects with one of its accounts, announces the
\* account it switched to (or << >>: none left) and the chain it moved to, the
\* timer polls, the reads resolve; at most maxListeners listener pairs get
\* registered.
SessionStep(accounts, switches, maxListeners) ==
    \/ ConnectWallet
    \/ \E a \in accounts : ConnectResolved(a, maxListeners)
    \/ ConnectRejected
    \/ \E a \in switches : AccountsChanged(a)
    \/ \E n \in Networks : NetworkChanged(n)
    \/ \E id \in timers : PollTick(id)
    \/ \E r \in BagToSet(reads) : BalanceResolved(r)
    \/ \E r \in BagToSet(reads) : BalanceRejected(r)
    \/ TokenNameResolved
    \/ TokenSymbolResolved
    \/ TokenDataRejected
    \/ DismissNetworkError

\* What follows the submission of a transfer.
AttemptStep ==
    \/ \E i \in DOMAIN transfers : TransferSent(i)
    \/ \E i \in DOMAIN transfers, e \in {RejectedByUser, ProviderError} : TransferRejected(i, e)
    \/ \E i \in DOMAIN transfers : WaitFailed(i)
    \/ \E i \in DOMAIN transfers : WaitIncluded(i)
    \/ \E i \in DOMAIN transfers : WaitRejected(i)
    \/ \E r \in BagToSet(reads) : RefreshResolved(r)
    \/ \E r \in BagToSet(reads) : RefreshRejected(r)
    \/ DismissTransactionError

\* The transfers of the application view, at most maxTx attempts.
TransferStep(maxTx) ==
    \/ \E to \in Recipients, amount \in Amounts : SubmitTransfer(to, amount, maxTx)
    \/ AttemptStep

\* The Transfer form, field by field, at most maxTx attempts.
FormStep(maxTx) ==
    \/ \E v \in TypedAmounts : HandleInputChange("amount", v)
    \/ \E v \in TypedRecipients : HandleInputChange("to", v)
    \/ OnMaxClick
    \/ OnSubmit(maxTx)

\* The theme and progress flags the children set through the contexts.
FlagStep ==
    \/ \E b \in {TRUE} : ToggleTheme(b)
    \/ \E b \in {TRUE} : SetIsProcessing(b)

\* The session life cycle of a wallet with two accounts: connects,
\* reconnects, account and chain switches.
Next ==
    SessionStep(Addresses, {Undefined} \cup {Some(a) : a \in Addresses}, MaxListeners)

Spec == Init /\ [][Next]_vars

\* Transfers, overlapping ones included, in the session of a wallet with
\* one account, which the user may remove.
NextTransfers ==
    \/ SessionStep({"0xA"}, {Undefined}, MaxListeners - 1)
    \/ TransferStep(MaxTx)
    \/ FlagStep

SpecTransfers == Init /\ [][NextTransfers]_vars

\* Unmounting: the root view is removed while calls are in flight.
NextUnmount ==
    \/ SessionStep({"0xA"}, {Undefined, Some("0xA")}, MaxListeners - 1)
    \/ TransferStep(MaxTx - 1)
    \/ Unmount

SpecUnmount == Init /\ [][NextUnmount]_vars

\* The Transfer form in the session of a wallet with one account.
NextForm ==
    \/ SessionStep({"0xA"}, {Undefined}, MaxListeners - 1)
    \/ FormStep(MaxTx - 1)
    \/ AttemptStep

SpecForm == Init /\ [][NextForm]_vars

\* The session, with any token deployed.
SpecToken == InitAnyToken /\ [][Next]_vars

\* ------------------------------------------------------------ the claims
AttemptEnds ==
    {"transfer:notInitialized", "transfer:rejectedByUser", "transfer:error",
     "transfer:status0", "transfer:ok"}

Outstanding == {i \in DOMAIN transfers : transfers[i].pc # "done"}

WrongNetworkMessage == Some("Please connect Metamask to Localhost:8545")

\* C1: when a transfer attempt has ended, however it ended (included,
\* included with status 0, provider error, rejected by the user, no token
\* contract), txBeingSent is undefined.
C1_PendingClearedAtEnd ==
    last.op \in AttemptEnds => state.txBeingSent = Undefined

C1_Witness ==
    /\ last.op = "transfer:ok"
    /\ transfers[last.tx].pc = "done"
    /\ state.txBeingSent = Undefined
    /\ IsSet(state.balance)

\* C2: the step in which an attempt ends on a receipt of status 0 leaves
\* transactionError set and txBeingSent undefined, and issues no balanceOf
\* call (nor was one issued for the attempt before).
C2_Status0StoresError ==
    [][last'.op = "transfer:status0" =>
          /\ IsSet(state'.transactionError)
          /\ state'.txBeingSent = Undefined
          /\ reads' = reads
          /\ \A r \in BagToSet(reads') : r.awaitedBy # last'.tx]_vars

C2_Witness ==
    /\ last.op = "transfer:status0"
    /\ state.transactionError = Some(TransactionFailed)
    /\ state.txBeingSent = Undefined

\* C3: an attempt the user rejected (code 4001) ends with transactionError
\* undefined, and an attempt that failed with any other error ends with
\* transactionError set.
C3_RejectionLeavesNoError ==
    /\ last.op = "transfer:rejectedByUser" => state.transactionError = Undefined
    /\ last.op = "transfer:error" => IsSet(state.transactionError)

\* C4: the continuation of _connectWallet that runs while the wallet is on
\* another chain than HARDHAT_NETWORK_ID sets networkError to the message
\* and changes nothing else: selectedAddress stays as it was (undefined in
\* the ConnectWallet view), no contract handle is created, no timer started,
\* no read issued, no listener registered.
C4_WrongChainOnlySetsError ==
    [][(last'.op = "connect:resolved" /\ ethereum.networkVersion # HARDHAT_NETWORK_ID) =>
          /\ state' = [state EXCEPT !.networkError = WrongNetworkMessage]
          /\ UNCHANGED <<_provider, _token, _orchestrator, _farmController,
                         _pollDataInterval, timers, reads, tokenReads, ethereum>>]_vars

C4_Witness ==
    /\ last.op = "connect:resolved"
    /\ ethereum.networkVersion = "1"
    /\ state.networkError = WrongNetworkMessage
    /\ state.selectedAddress = Undefined
    /\ _token = Undefined
    /\ timers = {}

\* C5: selectedAddress is recorded (the session becomes active, or moves to
\* another address) only in a step after which the wallet is on the
\* expected chain.
C5_ActiveOnlyOnExpectedChain ==
    [][(IsSet(state'.selectedAddress) /\ state'.selectedAddress # state.selectedAddress) =>
          ethereum'.networkVersion = HARDHAT_NETWORK_ID]_vars

\* C6: in an active session of a mounted view, the handling of networkChanged, or of
\* accountsChanged with no address, stops the polling timer and resets every
\* field of the state to undefined, so the ConnectWallet view is shown.
C6_WalletSignalResets ==
    [][(/\ mounted /\ IsSet(state.selectedAddress)
        /\ \/ last'.op = "networkChanged"
           \/ last'.op = "accountsChanged" /\ last'.arg = Undefined) =>
          /\ state' = initialState
          /\ _pollDataInterval' = Undefined
          /\ \A t \in timers : Some(t) = _pollDataInterval => t \notin timers'
          /\ View' = "ConnectWallet"]_vars

C6_Witness ==
    /\ last.op = "networkChanged"
    /\ state = initialState
    /\ _pollDataInterval = Undefined /\ timers = {}
    /\ IsSet(_token)
    /\ BagCardinality(reads) > 0

\* C7: in a mounted view, the handling of accountsChanged with a new address
\* stops the running polling timer and re-initializes: selectedAddress is the new address, one
\* new timer runs in place of the stopped one, and a balanceOf call for the
\* new address has been issued.
C7_AccountSwitchRestarts ==
    [][(mounted /\ last'.op = "accountsChanged" /\ IsSet(last'.arg)) =>
          LET kept == {t \in timers : Some(t) # _pollDataInterval}
              r == [address |-> last'.arg, awaitedBy |-> 0]
          IN  /\ state'.selectedAddress = last'.arg
              /\ IsSet(_pollDataInterval')
              /\ _pollDataInterval'[1] \notin kept
              /\ timers' = kept \cup {_pollDataInterval'[1]}
              /\ CopiesIn(r, reads') > CopiesIn(r, reads)]_vars

C7_Witness ==
    /\ last.op = "accountsChanged" /\ last.arg = Some("0xB")
    /\ state.selectedAddress = Some("0xB")
    /\ IsSet(_pollDataInterval) /\ timers = {_pollDataInterval[1]}
    /\ BagIn([address |-> Some("0xA"), awaitedBy |-> 0], reads)
    /\ BagIn([address |-> Some("0xB"), awaitedBy |-> 0], reads)

\* C8: once the root view has been unmounted while polling was active, no
\* polling timer runs and no further balanceOf call is issued.
C8_NoReadsAfterUnmount ==
    [][unmountedWhilePolling' =>
          /\ timers' = {}
          /\ \A r \in BagToSet(reads') : CopiesIn(r, reads') <= CopiesIn(r, reads)]_vars

\* C9: _dismissTransactionError sets transactionError to undefined and
\* changes nothing else: no other field of the state, no contract handle,
\* not the polling timer, no call in flight.
C9_DismissOnlyClearsError ==
    [][last'.op = "_dismissTransactionError" =>
          /\ state' = [state EXCEPT !.transactionError = Undefined]
          /\ UNCHANGED <<_provider, _token, _orchestrator, _farmController,
                         _pollDataInterval, timers, ethereum, enablePending,
                         tokenReads, reads, transfers, ledger, mounted>>]_vars

C9_Witness ==
    /\ last.op = "_dismissTransactionError"
    /\ state.transactionError = Undefined
    /\ IsSet(state.txBeingSent)
    /\ IsSet(state.isDarkTheme) /\ IsSet(state.isProcessing)

\* C10: at most one transfer attempt is outstanding (submitted and not yet
\* at its end) in every reachable state.
C10_AtMostOneOutstanding == Cardinality(Outstanding) <= 1

\* C11 (as amended): transactionError changes from set to undefined only in
\* the user's dismissal, at the start of a transfer attempt or in a session
\* reset (networkChanged, account removed); networkError only in the user's
\* dismissal or in a session reset; an attempt that ends in an error stores
\* that error in place of the one held before.
Resets == {"networkChanged", "accountsChanged"}

C11_ErrorsClearedByDismissStartOrReset ==
    [][/\ (IsSet(state.transactionError) /\ state'.transactionError = Undefined) =>
             last'.op \in {"_dismissTransactionError", "_transferTokens"} \cup Resets
       /\ (IsSet(state.networkError) /\ state'.networkError = Undefined) =>
             last'.op \in {"_dismissNetworkError"} \cup Resets
       /\ last'.op = "transfer:status0" =>
             state'.transactionError = Some(TransactionFailed)
       /\ last'.op = "transfer:error" =>
             state'.transactionError = Some(ProviderError)]_vars

C11_Witness ==
    /\ last.op = "_transferTokens" /\ last.tx = 2
    /\ transfers[1].pc = "done"
    /\ state.transactionError = Undefined
    /\ state.networkError = Undefined
    /\ IsSet(state.selectedAddress)

\* C11 (as stated): transactionError changes from set to undefined only in
\* the user's dismissal or at the successful end of a transfer, networkError
\* only in the user's dismissal or in a successful connect.
C11_ErrorsClearedOnlyByDismissOrSuccess ==
    [][/\ (IsSet(state.transactionError) /\ state'.transactionError = Undefined) =>
             last'.op \in {"_dismissTransactionError", "transfer:ok"}
       /\ (IsSet(state.networkError) /\ state'.networkError = Undefined) =>
             \/ last'.op = "_dismissNetworkError"
             \/ last'.op = "connect:resolved" /\ IsSet(state'.selectedAddress)]_vars

\* C12: when an asynchronous action has failed (enable(), name() or
\* symbol(), a polled balanceOf, transfer() or wait()), the failure has been
\* caught by that action and is held as display state: an error is stored.
Failures ==
    {"connect:rejected", "tokenData:rejected", "balance:rejected",
     "transfer:error", "transfer:status0"}

C12_FailuresCaughtAndStored ==
    last.op \in Failures =>
        IsSet(state.networkError) \/ IsSet(state.transactionError)

\* C13: the step in which a transfer is included with a non-zero status
\* issues exactly one balanceOf call, awaited by the attempt, and starts no
\* timer; that call is in flight only while the attempt waits for it; the
\* step in which it resolves stores the sender's amount after the transfer
\* and only then clears txBeingSent and ends the attempt.
AwaitedBy(rs, i) == {r \in BagToSet(rs) : r.awaitedBy = i}

C13_RefreshAfterInclusion ==
    [][/\ last'.op = "transfer:included" =>
             LET r == [address |-> state.selectedAddress, awaitedBy |-> last'.tx]
             IN  /\ reads' = reads (+) SetToBag({r})
                 /\ timers' = timers /\ _pollDataInterval' = _pollDataInterval
                 /\ state' = state
                 /\ transfers'[last'.tx].pc = "balance"
       /\ \A i \in DOMAIN transfers' :
             AwaitedBy(reads', i) # {} => transfers'[i].pc = "balance"
       /\ last'.op = "transfer:ok" =>
             LET t == transfers[last'.tx]
             IN  /\ t.pc = "balance"
                 /\ \E r \in AwaitedBy(reads, last'.tx) :
                       /\ reads' = Without(reads, r)
                       /\ r.address = t.from
                 /\ state'.balance =
                       Some([amount |-> InitialLedger[t.from[1]] - AmountValue(t.amount),
                             of |-> t.from[1]])
                 /\ state'.balance[1].amount = ledger'[t.from[1]]
                 /\ state'.txBeingSent = Undefined]_vars

C13_Witness ==
    /\ last.op = "transfer:ok"
    /\ state.balance = Some([amount |-> 0, of |-> "0xA"])
    /\ ledger = [InitialLedger EXCEPT !["0xA"] = 0, !["0xB"] = 2]
    /\ state.txBeingSent = Undefined
    /\ transfers[last.tx].pc = "done"

\* C14: when no wallet provider is injected, every reachable state shows the
\* NoWalletDetected view, and no connect request, transfer, token read,
\* balance read or polling timer has been started: the component is as it
\* was constructed.
C14_NoWalletIsTerminal ==
    ~ethereum.present =>
        /\ View = "NoWalletDetected"
        /\ enablePending = 0 /\ transfers = << >>
        /\ timers = {} /\ _pollDataInterval = Undefined
        /\ reads = EmptyBag /\ tokenReads = [name |-> 0, symbol |-> 0]
        /\ state = initialState /\ _token = Undefined
        /\ last.op = "constructor"

C14_Witness ==
    /\ ~ethereum.present
    /\ View = "NoWalletDetected"
    /\ mounted /\ last.op = "constructor"

\* C15: at most one polling timer is active in every reachable state, and
\* none is active while the component holds no timer (after a session reset
\* or an unmount, until polling is started again).
C15_NoDanglingTimer ==
    /\ Cardinality(timers) <= 1
    /\ _pollDataInterval = Undefined => timers = {}

\* C16: in an active session of a mounted view a polling timer runs and
\* each of its ticks can issue a balance read, whatever transfers are
\* pending and whatever error is stored; in the application view the form
\* can be submitted again; and no step of a transfer attempt touches the
\* timers. (MaxReads and MaxTx bound the model only.)
TransferOps ==
    AttemptEnds \cup {"_transferTokens", "transfer:sent", "transfer:included"}

C16_PollingIndependentOfTransfers ==
    /\ [](/\ (mounted /\ IsSet(state.selectedAddress)) =>
                /\ timers # {}
                /\ Polled(reads) < MaxReads =>
                      \A id \in timers : ENABLED PollTick(id)
          /\ (mounted /\ View = "Application" /\ Len(transfers) < MaxTx) =>
                \A to \in Recipients, amount \in Amounts :
                    ENABLED SubmitTransfer(to, amount, MaxTx))
    /\ [][/\ last'.op \in TransferOps =>
                timers' = timers /\ _pollDataInterval' = _pollDataInterval
          /\ last'.op = "poll" =>
                reads' = reads (+) SetToBag(
                    {[address |-> state.selectedAddress, awaitedBy |-> 0]})]_vars

C16_Witness ==
    /\ last.op = "poll"
    /\ Len(transfers) = 2
    /\ transfers[1].pc = "wait" /\ transfers[2].pc = "done"
    /\ IsSet(state.txBeingSent) /\ IsSet(state.transactionError)
    /\ BagIn([address |-> Some("0xA"), awaitedBy |-> 0], reads)

\* C17: whenever token data is loaded, its name, symbol and decimals are
\* the values the token contract reports (which are fixed, so that they do
\* not change while they stay loaded).
C17_TokenDataAsReported ==
    IsSet(state.tokenData) =>
        state.tokenData[1] = [name |-> Some(TokenName), symbol |-> Some(TokenSymbol),
                              decimals |-> Some(tokenDecimals)]

\* C18: while no address is selected (before the first connect, and after
\* a session reset until the next connect), tokenData, balance, txBeingSent
\* and transactionError are undefined: what a call in flight at the reset
\* delivers later is not written into the state.
C18_NothingWrittenAfterReset ==
    ~IsSet(state.selectedAddress) =>
        /\ state.tokenData = Undefined
        /\ state.balance = Undefined
        /\ state.txBeingSent = Undefined
        /\ state.transactionError = Undefined

\* C19: whenever an address is selected and balance is set, the balance is
\* one the token contract reported for the selected address.
C19_BalanceOfSelectedAddress ==
    (IsSet(state.selectedAddress) /\ IsSet(state.balance)) =>
        state.balance[1].of = state.selectedAddress[1]

\* C20: whenever some transfer waits for its inclusion (tx.wait() is
\* pending), txBeingSent is the hash of a transfer that still waits.
Waiting == {i \in DOMAIN transfers : transfers[i].pc = "wait"}

C20_PendingHashTracksWaiting ==
    Waiting # {} => \E i \in Waiting : state.txBeingSent = Some(TxHash(i))

\* C21: submitting the Transfer form calls the transfer callback only when
\* the entered amount is non-empty and not "0" and the entered recipient is
\* non-empty, and the call then carries exactly the entered recipient and
\* the entered amount, as a string; otherwise the step is an alert that
\* submits no transfer and leaves the form data (and the Dapp's state) as
\* they were.  Every call of the callback is an entry appended to transfers.
EnteredIsValid ==
    /\ IsSet(transferData.amount) /\ transferData.amount # Some("")
    /\ transferData.amount # Some("0")
    /\ IsSet(transferData.to) /\ transferData.to # Some("")

C21_SubmitCallsOnlyWithValidForm ==
    [][ /\ transfers' # transfers /\ Len(transfers') > Len(transfers)
            => /\ EnteredIsValid
               /\ Len(transfers') = Len(transfers) + 1
               /\ SubSeq(transfers', 1, Len(transfers)) = transfers
               /\ transfers'[Len(transfers')].to = transferData.to[1]
               /\ transfers'[Len(transfers')].amount = transferData.amount[1]
               /\ transferData' = transferData
        /\ last'.op \in {"alert:amount", "alert:address"}
            => /\ ~EnteredIsValid
               /\ UNCHANGED <<transfers, transferData, state>>
        /\ last'.op \in {"_transferTokens", "transfer:notInitialized"}
            => Len(transfers') > Len(transfers) ]_vars

C21_Witness ==
    /\ last.op = "_transferTokens" /\ last.tx = 1
    /\ transferData = [amount |-> Some("1"), to |-> Some("0xB")]
    /\ transfers[1].to = "0xB" /\ transfers[1].amount = "1"

====
